---- MODULE Spec2Model ----
(***************************************************************************)
(* Model of build_test_LM.py: the character n-gram language model NGramLM, *)
(* build_LM (training and add-one smoothing of the malaysian, indonesian   *)
(* and tamil models) and test_LM (classification of unlabelled lines).     *)
(*                                                                         *)
(* A text is a sequence of one-character strings, a gram is a text of      *)
(* length n.  A Counter is a function from its keys to their counts.  A    *)
(* log-probability is the IEEE-754 double the code computes, kept exactly. *)
(***************************************************************************)
EXTENDS Integers, Sequences, FiniteSets, TLC

VARIABLES
    pc,             \* position of the module body / build_LM / test_LM
    malaysian_lm,   \* build_LM's three models
    indonesian_lm,
    tamil_lm,
    trained,        \* training lines consumed so far: (label, text) -> how many
    test_lines,     \* test lines read so far, in order
    out_file,       \* labels written so far, in order
    lm,             \* the model instance of the NGramLM specification
    history,        \* the mutating calls made on lm, in order
    ret             \* the last query made on lm and what it returned

vars == <<pc, malaysian_lm, indonesian_lm, tamil_lm, trained, test_lines,
          out_file, lm, history, ret>>

pipeline_vars == <<pc, malaysian_lm, indonesian_lm, tamil_lm, trained,
                   test_lines, out_file>>

unit_vars == <<lm, history, ret>>

----------------------------------------------------------------------------
(* Bounds of the model.                                                    *)

MaxTrainLines == 4

MaxTestLines == 2

MaxN == 4

MaxOps == 3

(* The NGramLM specification scores texts on models of at most this total. *)
MaxTotal == 24

----------------------------------------------------------------------------
(* Arithmetic helpers.                                                     *)

Max0(k) == IF k > 0 THEN k ELSE 0

Min(a, b) == IF a < b THEN a ELSE b

(* text[lo:hi] for 0 <= lo <= hi: the slice is cut at the end of the text. *)
PySlice(text, lo, hi) == SubSeq(text, lo + 1, Min(hi, Len(text)))

(* A float that is <= 0 (every log-probability of the program is) is kept *)
(* exactly, as its magnitude in units of 2^-60 in three limbs of 30 bits:  *)
(* <<l2, l1, l0>> is the double -(l2 * 2^60 + l1 * 2^30 + l0) * 2^-60.     *)
(* Every double the model meets is such a multiple: the least magnitude is *)
(* that of log10(31/32), above 2^-8, and a double has 53 significant bits. *)
LimbBase == 2^30

(* The int 0 a sum starts from and an unseen gram's value; also 0.0. *)
Zero == <<0, 0, 0>>

RECURSIVE BitLen(_)
BitLen(k) == IF k = 0 THEN 0 ELSE 1 + BitLen(k \div 2)

(* A magnitude rounded to 53 significant bits, ties to even: the rounding  *)
(* of one IEEE-754 double operation.  r is the number of bits dropped.     *)
Round53(x) ==
    LET r == IF x[1] > 0 THEN BitLen(x[1]) + 7
             ELSE IF BitLen(x[2]) > 23 THEN BitLen(x[2]) - 23 ELSE 0
        low == x[3] % (2^r)
        half == 2^(r - 1)
        up == low > half \/ (low = half /\ (x[3] \div (2^r)) % 2 = 1)
        s0 == x[3] - low + (IF up THEN 2^r ELSE 0)
        s1 == x[2] + (s0 \div LimbBase)
    IN  IF r = 0 THEN x
        ELSE <<x[1] + (s1 \div LimbBase), s1 % LimbBase, s0 % LimbBase>>

(* x + y of two floats <= 0: the exact sum, rounded. *)
FloatAdd(x, y) ==
    LET s0 == x[3] + y[3]
        s1 == x[2] + y[2] + (s0 \div LimbBase)
        s2 == x[1] + y[1] + (s1 \div LimbBase)
    IN  Round53(<<s2, s1 % LimbBase, s0 % LimbBase>>)

(* x > y of two floats <= 0: the magnitude of x is the smaller. *)
FloatGreater(x, y) ==
    \/ x[1] < y[1]
    \/ x[1] = y[1] /\ x[2] < y[2]
    \/ x[1] = y[1] /\ x[2] = y[2] /\ x[3] < y[3]

(* math.log10(num / den) for 1 <= num <= den <= 32: row den, column num    *)
(* holds the double CPython's math.log10 returns for the (correctly        *)
(* rounded) quotient num / den.                                            *)
Log10Table ==
 <<
    << <<0, 0, 0>> >>,
    << <<0, 323228496, 668893120>>, <<0, 0, 0>> >>,
    << <<0, 512305046, 334856064>>, <<0, 189076549, 739704736>>, <<0, 0, 0>> >>,
    << <<0, 646456993, 264044416>>, <<0, 323228496, 668893120>>, <<0, 134151946, 1002930208>>,
       <<0, 0, 0>> >>,
    << <<0, 750513327, 404848640>>, <<0, 427284830, 809697408>>, <<0, 238208281, 69992704>>,
       <<0, 104056334, 140804272>>, <<0, 0, 0>> >>,
    << <<0, 835533542, 1003749120>>, <<0, 512305046, 334856064>>, <<0, 323228496, 668893120>>,
       <<0, 189076549, 739704736>>, <<0, 85020215, 598900400>>, <<0, 0, 0>> >>,
    << <<0, 907417110, 1013325824>>, <<0, 584188614, 344432640>>, <<0, 395112064, 678469760>>,
       <<0, 260960117, 749281344>>, <<0, 156903783, 608476992>>, <<0, 71883568, 9576624>>,
       <<0, 0, 0>> >>,
    << <<0, 969685489, 932937472>>, <<0, 646456993, 264044416>>, <<0, 457380443, 598081536>>,
       <<0, 323228496, 668893120>>, <<0, 219172162, 528088832>>, <<0, 134151946, 1002930208>>,
       <<0, 62268378, 993353632>>, <<0, 0, 0>> >>,
    << <<0, 1024610092, 669712000>>, <<0, 701381596, 818944>>, <<0, 512305046, 334856064>>,
       <<0, 378153099, 405667648>>, <<0, 274096765, 264863232>>, <<0, 189076549, 739704736>>,
       <<0, 117192981, 730128096>>, <<0, 54924602, 810516328>>, <<0, 0, 0>> >>,
    << <<1, 0, 0>>, <<0, 750513327, 404848640>>, <<0, 561436777, 738885888>>,
       <<0, 427284830, 809697408>>, <<0, 323228496, 668893120>>, <<0, 238208281, 69992704>>,
       <<0, 166324713, 60416128>>, <<0, 104056334, 140804272>>, <<0, 49131731, 404029808>>,
       <<0, 0, 0>> >>,
    << <<1, 44445057, 281374208>>, <<0, 794958384, 686223104>>, <<0, 605881834, 1020260224>>,
       <<0, 471729888, 17329920>>, <<0, 367673553, 950267520>>, <<0, 282653338, 351367104>>,
       <<0, 210769770, 341790464>>, <<0, 148501391, 422178624>>, <<0, 93576788, 685404144>>,
       <<0, 44445057, 281374368>>, <<0, 0, 0>> >>,
    << <<1, 85020215, 598900480>>, <<0, 835533542, 1003749120>>, <<0, 646456993, 264044416>>,
       <<0, 512305046, 334856064>>, <<0, 408248712, 194051712>>, <<0, 323228496, 668893120>>,
       <<0, 251344928, 659316448>>, <<0, 189076549, 739704736>>, <<0, 134151946, 1002930208>>,
       <<0, 85020215, 598900400>>, <<0, 40575158, 317526080>>, <<0, 0, 0>> >>,
    << <<1, 122345742, 1007832832>>, <<0, 872859070, 338939776>>, <<0, 683782520, 672976896>>,
       <<0, 549630573, 743788416>>, <<0, 445574239, 602984192>>, <<0, 360554024, 4083712>>,
       <<0, 288670455, 1068249024>>, <<0, 226402077, 74895328>>, <<0, 171477474, 338120896>>,
       <<0, 122345742, 1007832864>>, <<0, 77900685, 726458544>>, <<0, 37325527, 408932448>>,
       <<0, 0, 0>> >>,
    << <<1, 156903783, 608477184>>, <<0, 907417110, 1013325824>>, <<0, 718340561, 273620992>>,
       <<0, 584188614, 344432640>>, <<0, 480132280, 203628288>>, <<0, 395112064, 678469760>>,
       <<0, 323228496, 668893120>>, <<0, 260960117, 749281344>>, <<0, 206035514, 1012506784>>,
       <<0, 156903783, 608476992>>, <<0, 112458726, 327102672>>, <<0, 71883568, 9576624>>,
       <<0, 34558040, 674385928>>, <<0, 0, 0>> >>,
    << <<1, 189076549, 739704832>>, <<0, 939589877, 70811648>>, <<0, 750513327, 404848640>>,
       <<0, 616361380, 475660288>>, <<0, 512305046, 334856064>>, <<0, 427284830, 809697408>>,
       <<0, 355401262, 800120832>>, <<0, 293132883, 880509056>>, <<0, 238208281, 69992704>>,
       <<0, 189076549, 739704736>>, <<0, 144631492, 458330400>>, <<0, 104056334, 140804272>>,
       <<0, 66730806, 805613624>>, <<0, 32172766, 131227692>>, <<0, 0, 0>> >>,
    << <<1, 219172162, 528088832>>, <<0, 969685489, 932937472>>, <<0, 780608940, 193232768>>,
       <<0, 646456993, 264044416>>, <<0, 542400659, 123240192>>, <<0, 457380443, 598081536>>,
       <<0, 385496875, 588504960>>, <<0, 323228496, 668893120>>, <<0, 268303893, 932118592>>,
       <<0, 219172162, 528088832>>, <<0, 174727105, 246714464>>, <<0, 134151946, 1002930208>>,
       <<0, 96826419, 593997744>>, <<0, 62268378, 993353632>>, <<0, 30095612, 862125936>>,
       <<0, 0, 0>> >>,
    << <<1, 247442645, 192780032>>, <<0, 997955972, 597628800>>, <<0, 808879422, 931665920>>,
       <<0, 674727475, 1002477440>>, <<0, 570671141, 861673216>>, <<0, 485650926, 262772736>>,
       <<0, 413767358, 253196224>>, <<0, 351498979, 333584384>>, <<0, 296574376, 596809920>>,
       <<0, 247442645, 192780064>>, <<0, 202997587, 985147520>>, <<0, 162422429, 667621440>>,
       <<0, 125096902, 258689056>>, <<0, 90538861, 658044912>>, <<0, 58366095, 526817208>>,
       <<0, 28270482, 738433092>>, <<0, 0, 0>> >>,
    << <<1, 274096765, 264863232>>, <<0, 1024610092, 669712000>>, <<0, 835533542, 1003749120>>,
       <<0, 701381596, 818944>>, <<0, 597325261, 933756416>>, <<0, 512305046, 334856064>>,
       <<0, 440421478, 325279360>>, <<0, 378153099, 405667648>>, <<0, 323228496, 668893120>>,
       <<0, 274096765, 264863232>>, <<0, 229651707, 1057230720>>, <<0, 189076549, 739704736>>,
       <<0, 151751022, 330772256>>, <<0, 117192981, 730128096>>, <<0, 85020215, 598900400>>,
       <<0, 54924602, 810516328>>, <<0, 26654120, 72083228>>, <<0, 0, 0>> >>,
    << <<1, 299309399, 1002508544>>, <<0, 1049822727, 333615360>>, <<0, 860746177, 667652352>>,
       <<0, 726594230, 738464000>>, <<0, 622537896, 597659648>>, <<0, 537517680, 1072501120>>,
       <<0, 465634112, 1062924544>>, <<0, 403365734, 69570944>>, <<0, 348441131, 332796416>>,
       <<0, 299309399, 1002508416>>, <<0, 254864342, 721134048>>, <<0, 214289184, 403608000>>,
       <<0, 176963656, 1068417312>>, <<0, 142405616, 394031424>>, <<0, 110232850, 262803696>>,
       <<0, 80137237, 474419616>>, <<0, 51866754, 809728320>>, <<0, 25212634, 737645132>>,
       <<0, 0, 0>> >>,
    << <<1, 323228496, 668893184>>, <<1, 0, 0>>, <<0, 884665274, 334037120>>,
       <<0, 750513327, 404848640>>, <<0, 646456993, 264044416>>, <<0, 561436777, 738885888>>,
       <<0, 489553209, 729309248>>, <<0, 427284830, 809697408>>, <<0, 372360227, 1072922944>>,
       <<0, 323228496, 668893120>>, <<0, 278783439, 387518720>>, <<0, 238208281, 69992704>>,
       <<0, 200882753, 734802016>>, <<0, 166324713, 60416128>>, <<0, 134151946, 1002930208>>,
       <<0, 104056334, 140804272>>, <<0, 75785851, 476113040>>, <<0, 49131731, 404029808>>,
       <<0, 23919096, 740126560>>, <<0, 0, 0>> >>,
    << <<1, 345980333, 274439936>>, <<1, 22751836, 679288576>>, <<0, 907417110, 1013325824>>,
       <<0, 773265164, 10395520>>, <<0, 669208829, 943332992>>, <<0, 584188614, 344432640>>,
       <<0, 512305046, 334856064>>, <<0, 450036667, 415244224>>, <<0, 395112064, 678469760>>,
       <<0, 345980333, 274439936>>, <<0, 301535275, 1066807360>>, <<0, 260960117, 749281344>>,
       <<0, 223634590, 340348800>>, <<0, 189076549, 739704736>>, <<0, 156903783, 608476992>>,
       <<0, 126808170, 820092928>>, <<0, 98537688, 81659808>>, <<0, 71883568, 9576624>>,
       <<0, 46670933, 345673312>>, <<0, 22751836, 679288628>>, <<0, 0, 0>> >>,
    << <<1, 367673553, 950267392>>, <<1, 44445057, 281374208>>, <<0, 929110331, 615411456>>,
       <<0, 794958384, 686223104>>, <<0, 690902050, 545418752>>, <<0, 605881834, 1020260224>>,
       <<0, 533998266, 1010683584>>, <<0, 471729888, 17329920>>, <<0, 416805285, 280555456>>,
       <<0, 367673553, 950267520>>, <<0, 323228496, 668893120>>, <<0, 282653338, 351367104>>,
       <<0, 245327810, 1016176384>>, <<0, 210769770, 341790464>>, <<0, 178597004, 210562784>>,
       <<0, 148501391, 422178624>>, <<0, 120230908, 757487392>>, <<0, 93576788, 685404144>>,
       <<0, 68364153, 1021500880>>, <<0, 44445057, 281374368>>, <<0, 21693220, 675827552>>,
       <<0, 0, 0>> >>,
    << <<1, 388402306, 469335808>>, <<1, 65173809, 874184704>>, <<0, 949839084, 134479872>>,
       <<0, 815687137, 205291520>>, <<0, 711630803, 64487168>>, <<0, 626610587, 539328512>>,
       <<0, 554727019, 529751936>>, <<0, 492458640, 610140160>>, <<0, 437534037, 873365632>>,
       <<0, 388402306, 469335872>>, <<0, 343957249, 187961472>>, <<0, 303382090, 944177280>>,
       <<0, 266056563, 535244832>>, <<0, 231498522, 934600608>>, <<0, 199325756, 803372960>>,
       <<0, 169230143, 1014988864>>, <<0, 140959661, 276555808>>, <<0, 114305541, 204472528>>,
       <<0, 89092906, 540569264>>, <<0, 65173809, 874184576>>, <<0, 42421973, 194895984>>,
       <<0, 20728752, 592810196>>, <<0, 0, 0>> >>,
    << <<1, 408248712, 194051840>>, <<1, 85020215, 598900480>>, <<0, 969685489, 932937472>>,
       <<0, 835533542, 1003749120>>, <<0, 731477208, 862944768>>, <<0, 646456993, 264044416>>,
       <<0, 574573425, 254467712>>, <<0, 512305046, 334856064>>, <<0, 457380443, 598081536>>,
       <<0, 408248712, 194051712>>, <<0, 363803654, 986419200>>, <<0, 323228496, 668893120>>,
       <<0, 285902969, 259960640>>, <<0, 251344928, 659316448>>, <<0, 219172162, 528088832>>,
       <<0, 189076549, 739704736>>, <<0, 160806067, 1271584>>, <<0, 134151946, 1002930208>>,
       <<0, 108939312, 265285152>>, <<0, 85020215, 598900400>>, <<0, 62268378, 993353632>>,
       <<0, 40575158, 317526080>>, <<0, 19846405, 798457656>>, <<0, 0, 0>> >>,
    << <<1, 427284830, 809697280>>, <<1, 104056334, 140804352>>, <<0, 988721608, 474841472>>,
       <<0, 854569661, 545652992>>, <<0, 750513327, 404848640>>, <<0, 665493111, 879690112>>,
       <<0, 593609543, 870113536>>, <<0, 531341164, 950501696>>, <<0, 476416562, 139985408>>,
       <<0, 427284830, 809697408>>, <<0, 382839773, 528323072>>, <<0, 342264615, 210796992>>,
       <<0, 304939087, 875606272>>, <<0, 270381047, 201220352>>, <<0, 238208281, 69992704>>,
       <<0, 208112668, 281608576>>, <<0, 179842185, 616917312>>, <<0, 153188065, 544834144>>,
       <<0, 127975430, 880930832>>, <<0, 104056334, 140804272>>, <<0, 81304497, 535257536>>,
       <<0, 59611276, 933171768>>, <<0, 38882524, 340361536>>, <<0, 19036118, 615645728>>,
       <<0, 0, 0>> >>,
    << <<1, 445574239, 602984192>>, <<1, 122345742, 1007832832>>, <<0, 1007011017, 268128128>>,
       <<0, 872859070, 338939776>>, <<0, 768802736, 198135424>>, <<0, 683782520, 672976896>>,
       <<0, 611898952, 663400320>>, <<0, 549630573, 743788416>>, <<0, 494705970, 1007014016>>,
       <<0, 445574239, 602984192>>, <<0, 401129182, 321609856>>, <<0, 360554024, 4083712>>,
       <<0, 323228496, 668893120>>, <<0, 288670455, 1068249024>>, <<0, 256497689, 937021344>>,
       <<0, 226402077, 74895328>>, <<0, 198131594, 410204096>>, <<0, 171477474, 338120896>>,
       <<0, 146264839, 674217632>>, <<0, 122345742, 1007832864>>, <<0, 99593906, 328544272>>,
       <<0, 77900685, 726458544>>, <<0, 57171933, 133648344>>, <<0, 37325527, 408932448>>,
       <<0, 18289408, 867028576>>, <<0, 0, 0>> >>,
    << <<1, 463173314, 1004568064>>, <<1, 139944818, 335674880>>, <<0, 1024610092, 669712000>>,
       <<0, 890458145, 740523648>>, <<0, 786401811, 599719296>>, <<0, 701381596, 818944>>,
       <<0, 629498027, 1064984064>>, <<0, 567229649, 71630464>>, <<0, 512305046, 334856064>>,
       <<0, 463173314, 1004568064>>, <<0, 418728257, 723193664>>, <<0, 378153099, 405667648>>,
       <<0, 340827571, 1070476992>>, <<0, 306269531, 396091008>>, <<0, 274096765, 264863232>>,
       <<0, 244001152, 476479200>>, <<0, 215730669, 811787904>>, <<0, 189076549, 739704736>>,
       <<0, 163863915, 2059584>>, <<0, 139944818, 335674912>>, <<0, 117192981, 730128096>>,
       <<0, 95499761, 54300560>>, <<0, 74771008, 535232144>>, <<0, 54924602, 810516328>>,
       <<0, 35888484, 194870592>>, <<0, 17599075, 401583852>>, <<0, 0, 0>> >>,
    << <<1, 480132280, 203628288>>, <<1, 156903783, 608477184>>, <<0, 1041569057, 942514176>>,
       <<0, 907417110, 1013325824>>, <<0, 803360776, 872521472>>, <<0, 718340561, 273620992>>,
       <<0, 646456993, 264044416>>, <<0, 584188614, 344432640>>, <<0, 529264011, 607658112>>,
       <<0, 480132280, 203628288>>, <<0, 435687222, 995995776>>, <<0, 395112064, 678469760>>,
       <<0, 357786537, 269537216>>, <<0, 323228496, 668893120>>, <<0, 291055730, 537665408>>,
       <<0, 260960117, 749281344>>, <<0, 232689635, 10848256>>, <<0, 206035514, 1012506784>>,
       <<0, 180822880, 274861696>>, <<0, 156903783, 608476992>>, <<0, 134151946, 1002930208>>,
       <<0, 112458726, 327102672>>, <<0, 91729973, 808034288>>, <<0, 71883568, 9576624>>,
       <<0, 52847449, 467672680>>, <<0, 34558040, 674385928>>, <<0, 16958965, 272802112>>,
       <<0, 0, 0>> >>,
    << <<1, 496496069, 727968256>>, <<1, 173267573, 59075072>>, <<0, 1057932847, 393112320>>,
       <<0, 923780900, 463923840>>, <<0, 819724566, 323119488>>, <<0, 734704350, 797960960>>,
       <<0, 662820782, 788384384>>, <<0, 600552403, 868772608>>, <<0, 545627801, 58256256>>,
       <<0, 496496069, 727968256>>, <<0, 452051012, 446593920>>, <<0, 411475854, 129067840>>,
       <<0, 374150326, 793877184>>, <<0, 339592286, 119491200>>, <<0, 307419519, 1062005312>>,
       <<0, 277323907, 199879424>>, <<0, 249053424, 535188192>>, <<0, 222399304, 463104928>>,
       <<0, 197186669, 799201696>>, <<0, 173267573, 59075104>>, <<0, 150515736, 453528352>>,
       <<0, 128822515, 851442656>>, <<0, 108093763, 258632384>>, <<0, 88247357, 533916560>>,
       <<0, 69211238, 992012704>>, <<0, 50921830, 124984072>>, <<0, 33322754, 797142092>>,
       <<0, 16363789, 524339940>>, <<0, 0, 0>> >>,
    << <<1, 512305046, 334856192>>, <<1, 189076549, 739704832>>, <<1, 0, 0>>,
       <<0, 939589877, 70811648>>, <<0, 835533542, 1003749120>>, <<0, 750513327, 404848640>>,
       <<0, 678629759, 395272064>>, <<0, 616361380, 475660288>>, <<0, 561436777, 738885888>>,
       <<0, 512305046, 334856064>>, <<0, 467859989, 53481728>>, <<0, 427284830, 809697408>>,
       <<0, 389959303, 400764928>>, <<0, 355401262, 800120832>>, <<0, 323228496, 668893120>>,
       <<0, 293132883, 880509056>>, <<0, 264862401, 142075904>>, <<0, 238208281, 69992704>>,
       <<0, 212995646, 406089440>>, <<0, 189076549, 739704736>>, <<0, 166324713, 60416128>>,
       <<0, 144631492, 458330400>>, <<0, 123902739, 939261936>>, <<0, 104056334, 140804272>>,
       <<0, 85020215, 598900400>>, <<0, 66730806, 805613624>>, <<0, 49131731, 404029808>>,
       <<0, 32172766, 131227692>>, <<0, 15808976, 680629558>>, <<0, 0, 0>> >>,
    << <<1, 527595601, 409462272>>, <<1, 204367104, 814310912>>, <<1, 15290555, 74606336>>,
       <<0, 954880432, 145417984>>, <<0, 850824098, 4613632>>, <<0, 765803882, 479454976>>,
       <<0, 693920314, 469878400>>, <<0, 631651935, 550266624>>, <<0, 576727332, 813492096>>,
       <<0, 527595601, 409462336>>, <<0, 483150544, 128087936>>, <<0, 442575385, 884303744>>,
       <<0, 405249858, 475371264>>, <<0, 370691817, 874727168>>, <<0, 338519051, 743499392>>,
       <<0, 308423438, 955115328>>, <<0, 280152956, 216682240>>, <<0, 253498836, 144599008>>,
       <<0, 228286201, 480695744>>, <<0, 204367104, 814311040>>, <<0, 181615268, 135022464>>,
       <<0, 159922047, 532936640>>, <<0, 139193294, 1013868288>>, <<0, 119346889, 215410608>>,
       <<0, 100310770, 673506768>>, <<0, 82021361, 880219936>>, <<0, 64422286, 478636136>>,
       <<0, 47463321, 205834032>>, <<0, 31099531, 755235912>>, <<0, 15290555, 74606300>>,
       <<0, 0, 0>> >>,
    << <<1, 542400659, 123240192>>, <<1, 219172162, 528088832>>, <<1, 30095612, 862125824>>,
       <<0, 969685489, 932937472>>, <<0, 865629155, 792133248>>, <<0, 780608940, 193232768>>,
       <<0, 708725372, 183656192>>, <<0, 646456993, 264044416>>, <<0, 591532390, 527269888>>,
       <<0, 542400659, 123240192>>, <<0, 497955601, 915607552>>, <<0, 457380443, 598081536>>,
       <<0, 420054916, 189149056>>, <<0, 385496875, 588504960>>, <<0, 353324109, 457277248>>,
       <<0, 323228496, 668893120>>, <<0, 294958013, 1004201856>>, <<0, 268303893, 932118592>>,
       <<0, 243091259, 194473504>>, <<0, 219172162, 528088832>>, <<0, 196420325, 922542016>>,
       <<0, 174727105, 246714464>>, <<0, 153998352, 727646080>>, <<0, 134151946, 1002930208>>,
       <<0, 115115828, 387284512>>, <<0, 96826419, 593997744>>, <<0, 79227344, 192413920>>,
       <<0, 62268378, 993353632>>, <<0, 45904589, 469013672>>, <<0, 30095612, 862125936>>,
       <<0, 14805057, 787519616>>, <<0, 0, 0>> >>
 >>

log10(num, den) == Log10Table[den][num]

----------------------------------------------------------------------------
(* collections.Counter.                                                    *)

EmptyCounter == [g \in {} |-> 0]

(* key in counter *)
Contains(c, k) == k \in DOMAIN c

(* counter[key]: 0 for a missing key, which is not inserted. *)
CounterGet(c, k) == IF k \in DOMAIN c THEN c[k] ELSE 0

CounterInc(c, k) ==
    [x \in DOMAIN c \cup {k} |-> IF x = k THEN CounterGet(c, k) + 1 ELSE c[x]]

(* Counter.update(iterable) over a sequence: one count per element. *)
RECURSIVE CounterUpdateSeq(_, _)
CounterUpdateSeq(c, s) ==
    IF s = <<>> THEN c ELSE CounterUpdateSeq(CounterInc(c, Head(s)), Tail(s))

(* Counter.update(iterable) over a set: one count per element. *)
RECURSIVE CounterUpdateSet(_, _)
CounterUpdateSet(c, S) ==
    IF S = {} THEN c
    ELSE LET k == CHOOSE x \in S : TRUE
         IN  CounterUpdateSet(CounterInc(c, k), S \ {k})

RECURSIVE SumOver(_, _)
SumOver(c, S) ==
    IF S = {} THEN 0
    ELSE LET k == CHOOSE x \in S : TRUE IN c[k] + SumOver(c, S \ {k})

(* Counter.total(): the sum of the counts. *)
CounterTotal(c) == SumOver(c, DOMAIN c)

----------------------------------------------------------------------------
(* class NGramLM.                                                          *)

NGramLM(n) == [n |-> n, occurances |-> EmptyCounter]

(* The grams the generator yields, in order: text[i : i + n] for i in      *)
(* range(len(text) - n + 1).                                               *)
to_n_gram_generator_off_by_one(self, text) ==
    [j \in 1..Max0(Len(text) - self.n) |-> PySlice(text, j - 1, j - 1 + self.n)]

to_n_gram_generator(self, text) ==
    [j \in 1..Max0(Len(text) - self.n + 1) |->
        PySlice(text, j - 1, j - 1 + self.n)]

train_on_text_first_gram_only(self, text) ==
    [self EXCEPT !.occurances =
        CounterUpdateSeq(@, SubSeq(to_n_gram_generator(self, text), 1, 1))]

train_on_text(self, text) ==
    [self EXCEPT !.occurances =
        CounterUpdateSeq(@, to_n_gram_generator(self, text))]

_get_gram_log_probability(self, gram) ==
    IF ~Contains(self.occurances, gram) THEN Zero
    ELSE log10(self.occurances[gram], CounterTotal(self.occurances))

RECURSIVE SumLogs(_, _, _)
SumLogs(self, grams, output) ==
    IF grams = <<>> THEN output
    ELSE SumLogs(self, Tail(grams),
                 FloatAdd(output, _get_gram_log_probability(self, Head(grams))))

get_log_probability(self, text) ==
    SumLogs(self, to_n_gram_generator(self, text), Zero)

add_one_smoothing_new_grams_only(self, vocab) ==
    [self EXCEPT !.occurances =
        CounterUpdateSet(@, vocab \ DOMAIN self.occurances)]

add_one_smoothing(self, vocab) ==
    [self EXCEPT !.occurances = CounterUpdateSet(@, vocab)]

(* num_unseen / num_grams as a fraction; the true division raises          *)
(* ZeroDivisionError when num_grams is 0.                                  *)
get_percent_unseen(self, text) ==
    LET grams == to_n_gram_generator(self, text)
        num_unseen ==
            Cardinality({j \in 1..Len(grams) :
                            ~Contains(self.occurances, grams[j])})
        num_grams == Len(grams)
    IN  [exc |-> IF num_grams = 0 THEN "ZeroDivisionError" ELSE "",
         num |-> num_unseen, den |-> num_grams]

get_seen_grams(self) == DOMAIN self.occurances

----------------------------------------------------------------------------
(* The inputs.                                                             *)

malaysian == "malaysian"

indonesian == "indonesian"

tamil == "tamil"

other == "other"

(* n of the three models build_LM constructs. *)
GramLength == 4

(* TextLanguage: the labels a line can carry ("other" stands for every     *)
(* label that is none of the three).                                       *)
TextLanguage == {malaysian, indonesian, tamil, other}

(* _unit_test_NGramLM's TEXT and GRAMS.                                    *)
TEXT == <<"S", "e", "m", "u", "a", " ", "m", "a", "n", "u", "s">>

GRAMS ==
    << <<"S", "e", "m", "u">>, <<"e", "m", "u", "a">>, <<"m", "u", "a", " ">>,
       <<"u", "a", " ", "m">>, <<"a", " ", "m", "a">>, <<" ", "m", "a", "n">>,
       <<"m", "a", "n", "u">>, <<"a", "n", "u", "s">> >>

SetOf(s) == {s[j] : j \in 1..Len(s)}

(* set(GRAMS) | set(["1111", "2222", "3333"]) *)
UnitTestVocab ==
    SetOf(GRAMS) \cup {<<"1", "1", "1", "1">>, <<"2", "2", "2", "2">>,
                       <<"3", "3", "3", "3">>}

t_ab == <<"a", "b">>

t_aaaa == <<"a", "a", "a", "a">>

t_aabb == <<"a", "a", "b", "b">>

t_aaaaaaaa == <<"a", "a", "a", "a", "a", "a", "a", "a">>

t_bbbb == <<"b", "b", "b", "b">>

t_abab == <<"a", "b", "a", "b">>

t_aaaab == <<"a", "a", "a", "a", "b">>

t_aaaabbbb == <<"a", "a", "a", "a", "b", "b", "b", "b">>

(* Texts the NGramLM specification calls the methods with. *)
UnitTexts == {<<>>, t_ab, t_aaaab, TEXT}

(* Texts it trains on. *)
UnitTrainTexts == {t_ab, t_aaaab, TEXT}

(* Texts it scores. *)
UnitScoredTexts == {<<>>, t_ab, t_aaaab} \cup SetOf(GRAMS)

(* Vocabularies the NGramLM specification smooths with. *)
UnitVocabs(self) == {get_seen_grams(self), UnitTestVocab, {<<"1", "1", "1", "1">>}}

(* Texts of the training lines (the part after the first space): one too  *)
(* short for a gram, three with one gram each, one with the same gram five *)
(* times.                                                                  *)
TrainTexts == {t_ab, t_bbbb, t_aabb, t_abab, t_aaaaaaaa}

(* The training lines, as (label, text): every trainable label with every  *)
(* text that has a gram, and two lines with a label that is none of the    *)
(* three.                                                                  *)
TrainLines ==
    ({malaysian, indonesian, tamil} \X (TrainTexts \ {t_ab}))
        \cup {<<other, t_bbbb>>, <<other, t_ab>>}

(* Texts of the test lines; a blank line ends the input, so none is empty. *)
TestTexts == {t_ab, t_aabb, t_aaaabbbb}

----------------------------------------------------------------------------
(* The NGramLM specification: one instance, any gram length 1..MaxN, the   *)
(* methods called in any order.                                            *)

NoRet == [op |-> "none", arg |-> <<>>, value |-> <<>>]

NoTraining == [line \in TrainLines |-> 0]

PipelineIdle ==
    /\ pc = "NGramLM"
    /\ malaysian_lm = NGramLM(GramLength)
    /\ indonesian_lm = NGramLM(GramLength)
    /\ tamil_lm = NGramLM(GramLength)
    /\ trained = NoTraining
    /\ test_lines = <<>>
    /\ out_file = <<>>

InitLM ==
    /\ PipelineIdle
    /\ \E n \in 1..MaxN : lm = NGramLM(n)
    /\ history = <<>>
    /\ ret = NoRet

TrainOnText(text) ==
    /\ Len(history) < MaxOps
    /\ lm' = train_on_text(lm, text)
    /\ history' = Append(history, [op |-> "train_on_text", arg |-> text])
    /\ ret' = NoRet
    /\ UNCHANGED pipeline_vars

AddOneSmoothing(vocab) ==
    /\ Len(history) < MaxOps
    /\ lm' = add_one_smoothing(lm, vocab)
    /\ history' = Append(history, [op |-> "add_one_smoothing", arg |-> vocab])
    /\ ret' = NoRet
    /\ UNCHANGED pipeline_vars

ToNGramGenerator(text) ==
    /\ ret' = [op |-> "to_n_gram_generator", arg |-> text,
               value |-> to_n_gram_generator(lm, text)]
    /\ UNCHANGED <<lm, history>>
    /\ UNCHANGED pipeline_vars

GetLogProbability(text) ==
    /\ CounterTotal(lm.occurances) <= MaxTotal
    /\ ret' = [op |-> "get_log_probability", arg |-> text,
               value |-> get_log_probability(lm, text)]
    /\ UNCHANGED <<lm, history>>
    /\ UNCHANGED pipeline_vars

GetPercentUnseen(text) ==
    /\ ret' = [op |-> "get_percent_unseen", arg |-> text,
               value |-> get_percent_unseen(lm, text)]
    /\ UNCHANGED <<lm, history>>
    /\ UNCHANGED pipeline_vars

GetSeenGrams ==
    /\ ret' = [op |-> "get_seen_grams", arg |-> <<>>,
               value |-> get_seen_grams(lm)]
    /\ UNCHANGED <<lm, history>>
    /\ UNCHANGED pipeline_vars

NextLM ==
    \/ \E text \in UnitTrainTexts : TrainOnText(text)
    \/ \E vocab \in UnitVocabs(lm) : AddOneSmoothing(vocab)
    \/ \E text \in UnitTexts : ToNGramGenerator(text)
    \/ \E text \in UnitScoredTexts : GetLogProbability(text)
    \/ \E text \in UnitTexts : GetPercentUnseen(text)
    \/ GetSeenGrams

SpecLM == InitLM /\ [][NextLM]_vars

----------------------------------------------------------------------------
(* test_LM.classify_text.                                                  *)

(* 0.6, as the fraction 3/5.  num_unseen / num_grams >= 0.6 in floats is   *)
(* 5 * num_unseen >= 3 * num_grams: the float quotient of k/m is the float *)
(* nearest to it, which is the literal 0.6 exactly when 5k = 3m.           *)
OTHER_PERCENT_UNSEEN_THRESHOLD == [num |-> 3, den |-> 5]

(* p >= q of two fractions with small positive denominators. *)
FracGE(p, q) == p.num * q.den >= q.num * p.den

(* The label of a text, or "ZeroDivisionError" when get_percent_unseen     *)
(* raises.  LM is the tuple (malaysian_lm, indonesian_lm, tamil_lm).       *)
classify_text_strictly_above_threshold(LM, text) ==
    LET unseen == get_percent_unseen(LM[1], text)
    IN  IF unseen.exc # "" THEN unseen.exc
        ELSE IF ~FracGE(OTHER_PERCENT_UNSEEN_THRESHOLD, unseen) THEN other
        ELSE LET prob_m == get_log_probability(LM[1], text)
                 prob_i == get_log_probability(LM[2], text)
                 best_i == IF FloatGreater(prob_i, prob_m)
                           THEN <<indonesian, prob_i>> ELSE <<malaysian, prob_m>>
                 prob_t == get_log_probability(LM[3], text)
                 best_t == IF FloatGreater(prob_t, best_i[2])
                           THEN <<tamil, prob_t>> ELSE best_i
             IN  best_t[1]

classify_text_later_label_wins_ties(LM, text) ==
    LET unseen == get_percent_unseen(LM[1], text)
    IN  IF unseen.exc # "" THEN unseen.exc
        ELSE IF FracGE(unseen, OTHER_PERCENT_UNSEEN_THRESHOLD) THEN other
        ELSE LET prob_m == get_log_probability(LM[1], text)
                 prob_i == get_log_probability(LM[2], text)
                 best_i == IF ~FloatGreater(prob_m, prob_i)
                           THEN <<indonesian, prob_i>> ELSE <<malaysian, prob_m>>
                 prob_t == get_log_probability(LM[3], text)
                 best_t == IF ~FloatGreater(best_i[2], prob_t)
                           THEN <<tamil, prob_t>> ELSE best_i
             IN  best_t[1]

classify_text(LM, text) ==
    LET unseen == get_percent_unseen(LM[1], text)
    IN  IF unseen.exc # "" THEN unseen.exc
        ELSE IF FracGE(unseen, OTHER_PERCENT_UNSEEN_THRESHOLD) THEN other
        ELSE LET prob_m == get_log_probability(LM[1], text)
                 prob_i == get_log_probability(LM[2], text)
                 best_i == IF FloatGreater(prob_i, prob_m)
                           THEN <<indonesian, prob_i>> ELSE <<malaysian, prob_m>>
                 prob_t == get_log_probability(LM[3], text)
                 best_t == IF FloatGreater(prob_t, best_i[2])
                           THEN <<tamil, prob_t>> ELSE best_i
             IN  best_t[1]

----------------------------------------------------------------------------
(* The program: LM = build_LM(input_file_b); test_LM(..., LM).             *)
(* pc: "build" (build_LM reading lines), "build_error" (build_LM raised),  *)
(* "test" (test_LM reading lines), "test_error" (test_LM raised), "done".  *)

UnitIdle ==
    /\ lm = NGramLM(GramLength)
    /\ history = <<>>
    /\ ret = NoRet

Init ==
    /\ pc = "build"
    /\ malaysian_lm = NGramLM(GramLength)
    /\ indonesian_lm = NGramLM(GramLength)
    /\ tamil_lm = NGramLM(GramLength)
    /\ trained = NoTraining
    /\ test_lines = <<>>
    /\ out_file = <<>>
    /\ UnitIdle

RECURSIVE SumCounts(_, _)
SumCounts(f, S) ==
    IF S = {} THEN 0
    ELSE LET k == CHOOSE x \in S : TRUE IN f[k] + SumCounts(f, S \ {k})

(* How many training lines were read, and how many carried the label. *)
LinesRead == SumCounts(trained, TrainLines)

LinesOf(language) ==
    SumCounts(trained, {line \in TrainLines : line[1] = language})

(* One iteration of build_LM's loop: a line "<language> <text>". *)
BuildLine_labels_swapped(language, text) ==
    /\ pc = "build"
    /\ LinesRead < MaxTrainLines
    /\ malaysian_lm' = IF language = malaysian
                       THEN train_on_text(malaysian_lm, text) ELSE malaysian_lm
    /\ indonesian_lm' = IF language = tamil
                        THEN train_on_text(indonesian_lm, text) ELSE indonesian_lm
    /\ tamil_lm' = IF language = indonesian
                   THEN train_on_text(tamil_lm, text) ELSE tamil_lm
    /\ trained' = [trained EXCEPT ![<<language, text>>] = @ + 1]
    /\ UNCHANGED <<pc, test_lines, out_file, unit_vars>>

BuildLine(language, text) ==
    /\ pc = "build"
    /\ LinesRead < MaxTrainLines
    /\ malaysian_lm' = IF language = malaysian
                       THEN train_on_text(malaysian_lm, text) ELSE malaysian_lm
    /\ indonesian_lm' = IF language = indonesian
                        THEN train_on_text(indonesian_lm, text) ELSE indonesian_lm
    /\ tamil_lm' = IF language = tamil
                   THEN train_on_text(tamil_lm, text) ELSE tamil_lm
    /\ trained' = [trained EXCEPT ![<<language, text>>] = @ + 1]
    /\ UNCHANGED <<pc, test_lines, out_file, unit_vars>>

(* A line without a space: the unpacking of split(" ", 1) raises. *)
BuildParseError ==
    /\ pc = "build"
    /\ LinesRead < MaxTrainLines
    /\ pc' = "build_error"
    /\ UNCHANGED <<malaysian_lm, indonesian_lm, tamil_lm, trained, test_lines,
                   out_file, unit_vars>>

(* The input ends (end of file or a blank line): the vocabulary is the     *)
(* union of the seen grams, each model is smoothed with it, build_LM       *)
(* returns and test_LM starts.                                             *)
BuildReturn_own_vocabulary ==
    /\ pc = "build"
    /\ malaysian_lm' = add_one_smoothing(malaysian_lm, get_seen_grams(malaysian_lm))
    /\ indonesian_lm' = add_one_smoothing(indonesian_lm, get_seen_grams(indonesian_lm))
    /\ tamil_lm' = add_one_smoothing(tamil_lm, get_seen_grams(tamil_lm))
    /\ pc' = "test"
    /\ UNCHANGED <<trained, test_lines, out_file, unit_vars>>

BuildReturn ==
    /\ pc = "build"
    /\ LET gram_vocab == get_seen_grams(malaysian_lm)
                            \cup get_seen_grams(indonesian_lm)
                            \cup get_seen_grams(tamil_lm)
       IN  /\ malaysian_lm' = add_one_smoothing(malaysian_lm, gram_vocab)
           /\ indonesian_lm' = add_one_smoothing(indonesian_lm, gram_vocab)
           /\ tamil_lm' = add_one_smoothing(tamil_lm, gram_vocab)
    /\ pc' = "test"
    /\ UNCHANGED <<trained, test_lines, out_file, unit_vars>>

LM == <<malaysian_lm, indonesian_lm, tamil_lm>>

(* A lookup that records the grams it misses with count 0. *)
RememberGrams(self, text) ==
    [self EXCEPT !.occurances =
        [g \in DOMAIN @ \cup SetOf(to_n_gram_generator(self, text)) |->
            CounterGet(@, g)]]

(* One iteration of test_LM's loop on which classify_text returns: the     *)
(* label is written.                                                       *)
TestLine_lookups_insert(text) ==
    /\ pc = "test"
    /\ Len(test_lines) < MaxTestLines
    /\ classify_text(LM, text) # "ZeroDivisionError"
    /\ test_lines' = Append(test_lines, text)
    /\ out_file' = Append(out_file, classify_text(LM, text))
    /\ malaysian_lm' = RememberGrams(malaysian_lm, text)
    /\ UNCHANGED <<pc, indonesian_lm, tamil_lm, trained, unit_vars>>

TestLine(text) ==
    /\ pc = "test"
    /\ Len(test_lines) < MaxTestLines
    /\ classify_text(LM, text) # "ZeroDivisionError"
    /\ test_lines' = Append(test_lines, text)
    /\ out_file' = Append(out_file, classify_text(LM, text))
    /\ UNCHANGED <<pc, malaysian_lm, indonesian_lm, tamil_lm, trained, unit_vars>>

(* One iteration on which classify_text raises: test_LM ends with the      *)
(* exception, the labels written before it stay in the file.               *)
TestLineRaises(text) ==
    /\ pc = "test"
    /\ Len(test_lines) < MaxTestLines
    /\ classify_text(LM, text) = "ZeroDivisionError"
    /\ test_lines' = Append(test_lines, text)
    /\ pc' = "test_error"
    /\ UNCHANGED <<out_file, malaysian_lm, indonesian_lm, tamil_lm, trained,
                   unit_vars>>

(* The test input ends (end of file or a blank line): test_LM returns. *)
TestReturn ==
    /\ pc = "test"
    /\ pc' = "done"
    /\ UNCHANGED <<malaysian_lm, indonesian_lm, tamil_lm, trained, test_lines,
                   out_file, unit_vars>>

Next ==
    \/ \E line \in TrainLines : BuildLine(line[1], line[2])
    \/ BuildParseError
    \/ BuildReturn
    \/ \E text \in TestTexts : TestLine(text)
    \/ \E text \in TestTexts : TestLineRaises(text)
    \/ TestReturn

Spec == Init /\ [][Next]_vars

----------------------------------------------------------------------------
(* Claims about NGramLM, checked under SpecLM.                             *)

(* How many sliding windows of text (of length n, stride 1) equal gram.    *)
Windows(n, text, gram) ==
    Cardinality({i \in 0..(Len(text) - n) :
                    /\ Len(gram) = n
                    /\ \A k \in 1..n : text[i + k] = gram[k]})

(* The set of the sliding windows of text. *)
WindowSet(n, text) ==
    {[k \in 1..n |-> text[i + k]] : i \in 0..(Len(text) - n)}

(* Grams a frame condition is checked on: the keys before and after, the   *)
(* unit test's vocabulary and one gram of another length.                  *)
GramUniverse(c1, c2) == DOMAIN c1 \cup DOMAIN c2 \cup UnitTestVocab \cup {t_ab}

(* C1: to_n_gram_generator(T) yields exactly max(0, len(T) - n + 1) grams  *)
(* in left-to-right order, each of length n, the i-th (0-based) being      *)
(* T[i .. i+n-1]; it is empty when len(T) < n; for "Semua manus" and n = 4 *)
(* it is the unit test's GRAMS.                                            *)
C1_GramsAreTheWindows ==
    ret.op = "to_n_gram_generator" =>
        LET T == ret.arg
            n == lm.n
            grams == ret.value
        IN  /\ Len(grams) = (IF Len(T) - n + 1 > 0 THEN Len(T) - n + 1 ELSE 0)
            /\ \A i \in 0..(Len(grams) - 1) :
                  /\ Len(grams[i + 1]) = n
                  /\ \A k \in 1..n : grams[i + 1][k] = T[i + k]
            /\ (Len(T) < n => grams = <<>>)
            /\ (T = TEXT /\ n = 4 => grams = GRAMS)

C1_Witness ==
    /\ ret.op = "to_n_gram_generator"
    /\ ret.arg = TEXT
    /\ lm.n = 4
    /\ Len(ret.value) = 8
    /\ ret.value[8] = <<"a", "n", "u", "s">>

C2_Step ==
    (history' # history /\ history'[Len(history')].op = "train_on_text") =>
        LET T == history'[Len(history')].arg
        IN  /\ lm'.n = lm.n
            /\ \A g \in GramUniverse(lm.occurances, lm'.occurances) :
                  CounterGet(lm'.occurances, g)
                      = CounterGet(lm.occurances, g) + Windows(lm.n, T, g)

C2_Fresh ==
    (Len(history) = 1 /\ history[1].op = "train_on_text") =>
        LET T == history[1].arg
            n == lm.n
            total == CounterTotal(lm.occurances)
        IN  /\ get_seen_grams(lm) = WindowSet(n, T)
            /\ total = (IF Len(T) - n + 1 > 0 THEN Len(T) - n + 1 ELSE 0)
            /\ \A g \in get_seen_grams(lm) :
                  _get_gram_log_probability(lm, g) = log10(Windows(n, T, g), total)
            /\ (T = TEXT /\ n = 4 =>
                  /\ get_seen_grams(lm) = SetOf(GRAMS)
                  /\ get_log_probability(lm, GRAMS[1]) = log10(1, 8))

(* C2: train_on_text(T) raises the count of each gram by the number of     *)
(* sliding windows of T equal to it and changes no other count; on a fresh *)
(* model the seen grams are the windows of T, the total is                 *)
(* max(0, len(T) - n + 1) and a gram's probability is its window count     *)
(* over the total (1/8 for "Semu" of "Semua manus", n = 4).                *)
C2_TrainCountsWindows == []C2_Fresh /\ [][C2_Step]_vars

C2_Witness ==
    /\ history = <<[op |-> "train_on_text", arg |-> TEXT]>>
    /\ lm.n = 4
    /\ CounterGet(lm.occurances, GRAMS[1]) = 1
    /\ CounterTotal(lm.occurances) = 8

(* What the calls of a history add to a gram's count. *)
RECURSIVE AddedBy(_, _, _)
AddedBy(n, h, g) ==
    IF h = <<>> THEN 0
    ELSE AddedBy(n, SubSeq(h, 1, Len(h) - 1), g)
         + (IF h[Len(h)].op = "train_on_text"
            THEN Windows(n, h[Len(h)].arg, g)
            ELSE IF g \in h[Len(h)].arg THEN 1 ELSE 0)

C3_Step ==
    (history' # history /\ history'[Len(history')].op = "add_one_smoothing") =>
        LET V == history'[Len(history')].arg
        IN  /\ lm'.n = lm.n
            /\ \A g \in GramUniverse(lm.occurances, lm'.occurances) :
                  CounterGet(lm'.occurances, g)
                      = CounterGet(lm.occurances, g) + (IF g \in V THEN 1 ELSE 0)
            /\ CounterTotal(lm'.occurances)
                  = CounterTotal(lm.occurances) + Cardinality(V)

C3_Twice ==
    /\ (/\ Len(history) >= 2
        /\ history[Len(history)].op = "add_one_smoothing"
        /\ history[Len(history) - 1] = history[Len(history)]) =>
          \A g \in history[Len(history)].arg :
              CounterGet(lm.occurances, g)
                  = AddedBy(lm.n, SubSeq(history, 1, Len(history) - 2), g) + 2
    /\ (/\ lm.n = 4
        /\ history = <<[op |-> "train_on_text", arg |-> TEXT],
                       [op |-> "add_one_smoothing", arg |-> UnitTestVocab]>>) =>
          /\ CounterGet(lm.occurances, GRAMS[1]) = 2
          /\ CounterTotal(lm.occurances) = 19
          /\ get_log_probability(lm, GRAMS[1]) = log10(2, 19)

(* C3: add_one_smoothing(V) adds exactly one to the count of every gram of *)
(* V, present or not, leaves every other count alone and adds |V| to the   *)
(* total; applied twice with the same V it adds two (not idempotent);      *)
(* "Semu" has count 2 of 19 after smoothing the unit test's model.         *)
C3_SmoothingAddsOne == []C3_Twice /\ [][C3_Step]_vars

C3_Witness ==
    /\ lm.n = 4
    /\ history = <<[op |-> "train_on_text", arg |-> TEXT],
                   [op |-> "add_one_smoothing", arg |-> UnitTestVocab],
                   [op |-> "add_one_smoothing", arg |-> UnitTestVocab]>>
    /\ CounterGet(lm.occurances, GRAMS[1]) = 3
    /\ CounterGet(lm.occurances, <<"1", "1", "1", "1">>) = 2

----------------------------------------------------------------------------
(* Claims about build_LM and test_LM, checked under Spec.                  *)

Built == pc \in {"test", "test_error", "done"}

(* The sliding windows of a text and how many of them a model has no key   *)
(* for.                                                                    *)
NumWindows(text) == IF Len(text) >= GramLength THEN Len(text) - GramLength + 1 ELSE 0

NumUnseenWindows(self, text) ==
    Cardinality({i \in 0..(Len(text) - GramLength) :
                    [k \in 1..GramLength |-> text[i + k]] \notin DOMAIN self.occurances})

(* The windows of the training texts that carried a label, with repeats,   *)
(* and the union of the windows of every trainable label's texts.          *)
LinesLabelled(language) == {line \in TrainLines : line[1] = language}

TrainedWindows(language, g) ==
    SumCounts([line \in LinesLabelled(language) |->
                  trained[line] * Windows(GramLength, line[2], g)],
              LinesLabelled(language))

TotalTrainedWindows(language) ==
    SumCounts([line \in LinesLabelled(language) |->
                  trained[line] * NumWindows(line[2])],
              LinesLabelled(language))

VocabularyOf(language) ==
    UNION {WindowSet(GramLength, line[2]) :
              line \in {x \in LinesLabelled(language) : trained[x] > 0}}

TrainedVocabulary ==
    VocabularyOf(malaysian) \cup VocabularyOf(indonesian) \cup VocabularyOf(tamil)

ModelOf(language) ==
    CASE language = malaysian -> malaysian_lm
      [] language = indonesian -> indonesian_lm
      [] language = tamil -> tamil_lm

Trainable == {malaysian, indonesian, tamil}

(* C4: a test text with at least one gram is labelled "other" exactly when *)
(* 5 * (its grams absent from the malaysian model) >= 3 * (its grams).     *)
C4_OtherIffThreshold ==
    \A k \in 1..Len(out_file) :
        NumWindows(test_lines[k]) >= 1 =>
            (out_file[k] = other
                <=> 5 * NumUnseenWindows(malaysian_lm, test_lines[k])
                        >= 3 * NumWindows(test_lines[k]))

(* A line rejected on the boundary (3 of 5 grams unseen) and a line kept   *)
(* just below it (2 of 5).                                                 *)
C4_Witness ==
    /\ Len(out_file) = 1
    /\ test_lines[1] = t_aaaabbbb
    /\ NumUnseenWindows(malaysian_lm, t_aaaabbbb) = 3
    /\ out_file[1] = other

C4_WitnessBelow ==
    /\ Len(out_file) = 1
    /\ test_lines[1] = t_aaaabbbb
    /\ NumUnseenWindows(malaysian_lm, t_aaaabbbb) = 2
    /\ out_file[1] # other

(* The log-probability of a text under a label's model. *)
Score(language, text) == get_log_probability(ModelOf(language), text)

Index(language) ==
    CASE language = malaysian -> 1
      [] language = indonesian -> 2
      [] language = tamil -> 3

(* C5: a label other than "other" is one whose model's log-probability is  *)
(* >= that of both other models, and the smallest-index one among those    *)
(* tied for the maximum; identical models yield malaysian.                 *)
C5_ArgmaxFirstOnTies ==
    \A k \in 1..Len(out_file) :
        out_file[k] # other =>
            LET score == [l \in Trainable |-> Score(l, test_lines[k])]
                best == score[out_file[k]]
            IN  /\ out_file[k] \in Trainable
                /\ \A l \in Trainable : ~FloatGreater(score[l], best)
                /\ \A l \in Trainable :
                      score[l] = best => Index(out_file[k]) <= Index(l)
                /\ (malaysian_lm = indonesian_lm /\ indonesian_lm = tamil_lm
                      => out_file[k] = malaysian)

(* indonesian and tamil tie above malaysian: indonesian is written. *)
C5_Witness ==
    /\ Len(out_file) >= 1
    /\ out_file[1] = indonesian
    /\ Score(indonesian, test_lines[1]) = Score(tamil, test_lines[1])
    /\ FloatGreater(Score(indonesian, test_lines[1]), Score(malaysian, test_lines[1]))

(* C6: a test text shorter than the gram length is not an error: its       *)
(* percent-unseen is a defined value, its three log-probabilities are 0    *)
(* and its line gets one predicted label.                                  *)
C6_ShortTextIsLabelled ==
    \A k \in 1..Len(test_lines) :
        Len(test_lines[k]) < GramLength =>
            /\ get_percent_unseen(malaysian_lm, test_lines[k]).exc = ""
            /\ \A l \in Trainable : Score(l, test_lines[k]) = Zero
            /\ pc # "test_error"
            /\ k <= Len(out_file)
            /\ out_file[k] \in TextLanguage

(* C7: when test_LM ends, the output holds exactly one label per test line *)
(* read, in input order, each the classification of its line and one of    *)
(* the four labels.                                                        *)
C7_OneLabelPerLine ==
    pc \in {"done", "test_error"} =>
        /\ Len(out_file) = Len(test_lines)
        /\ \A k \in 1..Len(test_lines) :
              /\ out_file[k] = classify_text(LM, test_lines[k])
              /\ out_file[k] \in TextLanguage

(* C8: when build_LM has returned, the three models have the same seen     *)
(* grams, the union of the 4-grams of the texts labelled malaysian,        *)
(* indonesian or tamil, and each count is 1 plus the windows equal to the  *)
(* gram in the texts of the model's own label; other labels add nothing.   *)
C8_SmoothedCounts ==
    Built =>
        LET vocabulary == TrainedVocabulary
        IN  \A l \in Trainable :
                /\ ModelOf(l).n = GramLength
                /\ get_seen_grams(ModelOf(l)) = vocabulary
                /\ \A g \in vocabulary :
                      /\ ModelOf(l).occurances[g] = 1 + TrainedWindows(l, g)
                      /\ ModelOf(l).occurances[g] >= 1

C8_Witness ==
    /\ pc = "test"
    /\ trained[<<other, t_bbbb>>] = 1
    /\ trained[<<other, t_ab>>] = 1
    /\ trained[<<tamil, t_aaaaaaaa>>] = 1
    /\ trained[<<malaysian, t_aabb>>] = 1
    /\ tamil_lm.occurances[t_aaaa] = 6
    /\ malaysian_lm.occurances[t_aaaa] = 1
    /\ malaysian_lm.occurances[t_aabb] = 2
    /\ get_seen_grams(indonesian_lm) = {t_aaaa, t_aabb}

(* The premise of C9 for the test line k and the label L. *)
DisjointTraining ==
    /\ \A l \in Trainable : LinesOf(l) >= 1
    /\ \A l1, l2 \in Trainable :
          l1 # l2 => VocabularyOf(l1) \cap VocabularyOf(l2) = {}

VerbatimLine(k, L) ==
    /\ NumWindows(test_lines[k]) >= 1
    /\ <<L, test_lines[k]>> \in TrainLines
    /\ trained[<<L, test_lines[k]>>] >= 1

(* C9 as stated: with all three labels trained on pairwise disjoint        *)
(* vocabularies, a test line that is verbatim a training text of L (with   *)
(* at least one gram) is labelled L.                                       *)
C9_VerbatimLineGetsItsLabel ==
    (Built /\ DisjointTraining) =>
        \A k \in 1..Len(out_file) : \A L \in Trainable :
            VerbatimLine(k, L) => out_file[k] = L

(* C9 amended: ... provided L's training texts have in total no more       *)
(* 4-gram windows than each other label's; L's log-probability is then     *)
(* strictly greater than that of both other models.                        *)
C9_VerbatimLineOfSmallestLabel ==
    (Built /\ DisjointTraining) =>
        \A k \in 1..Len(out_file) : \A L \in Trainable :
            (/\ VerbatimLine(k, L)
             /\ \A M \in Trainable :
                   TotalTrainedWindows(L) <= TotalTrainedWindows(M)) =>
                /\ out_file[k] = L
                /\ \A M \in Trainable \ {L} :
                      FloatGreater(Score(L, test_lines[k]), Score(M, test_lines[k]))

C9_Witness ==
    /\ Built
    /\ DisjointTraining
    /\ Len(out_file) >= 1
    /\ VerbatimLine(1, tamil)
    /\ \A M \in Trainable : TotalTrainedWindows(tamil) <= TotalTrainedWindows(M)
    /\ out_file[1] = tamil

C10_Barrier ==
    (test_lines # <<>> \/ out_file # <<>>) =>
        /\ Built
        /\ \A l \in Trainable :
              /\ get_seen_grams(ModelOf(l)) = TrainedVocabulary
              /\ CounterTotal(ModelOf(l).occurances)
                    = TotalTrainedWindows(l) + Cardinality(TrainedVocabulary)
        /\ \A k \in 1..Len(out_file) :
              out_file[k] = classify_text(LM, test_lines[k])

C10_Frame ==
    Built => /\ LM' = LM
             /\ trained' = trained
             /\ \A k \in 1..Len(out_file) :
                   /\ out_file'[k] = out_file[k]
                   /\ test_lines'[k] = test_lines[k]

(* C10: no line is classified before the three models are smoothed; from   *)
(* then on no model changes (a query changes no count and no seen-gram     *)
(* set, also for grams the model lacks), so each label written is the      *)
(* classification of its own line alone, whatever was classified before.   *)
C10_TwoPhasesPureQueries == []C10_Barrier /\ [][C10_Frame]_vars

(* Two lines classified, the first with grams the malaysian model lacks. *)
C10_Witness ==
    /\ Len(out_file) = 2
    /\ test_lines[1] = t_aaaabbbb
    /\ NumUnseenWindows(malaysian_lm, t_aaaabbbb) = 2
    /\ out_file[1] # other
    /\ test_lines[2] = t_aaaabbbb
    /\ out_file[2] = out_file[1]

====
